---- MODULE Spec2Model ----
(***************************************************************************)
(* Model of ConanHorus/fds: the sorted-slice functions (internal/sorted),  *)
(* the buddy allocator (mm) and the index-addressed linked list (ll).      *)
(*                                                                         *)
(* Go slices are 0-based; TLA+ sequences are 1-based.  Every index that    *)
(* the code computes is kept 0-based here and slice[i] is read as s[i+1].  *)
(*                                                                         *)
(* uint64 arithmetic wraps modulo 2^64.  TLC's integers are 32 bits wide,  *)
(* so a wrapped value 2^64 - k is written -k (its two's-complement         *)
(* reading): + and - and equality agree with the arithmetic modulo 2^64    *)
(* for every magnitude the bounded runs reach.                             *)
(***************************************************************************)
EXTENDS Integers, Sequences, FiniteSets, TLC

VARIABLES
    allocator,  \* the BuddyAllocator under test: [state, used, freeLists]
    live,       \* bookkeeping: the (index, size) pairs returned by Allocate and not yet released
    result,     \* bookkeeping: the last call, its arguments, and what it returned
    misuse,     \* bookkeeping: some Free so far was passed a pair that was not a live allocation
    calls,      \* bookkeeping: number of calls made so far
    scenario,   \* bookkeeping of the run each specification drives: the scenario's
                \* progress, the inputs of a search, the abstract deque
    list,       \* the LinkedList under test: [head, tail, size, nodes, values, memory]
    handle,     \* the *LinkedListNode the caller holds, Nil if none
    fresh,      \* bookkeeping: handle was taken after the last change of the list
    fault       \* "none", or how the last list call ended abnormally: "panic", "hang"

allocVars == <<allocator, live, result, misuse, scenario>>

listVars == <<list, handle, fresh, fault>>

vars == <<allocator, live, result, misuse, calls, scenario, list, handle, fresh, fault>>

----------------------------------------------------------------------------
(* Bounds of the model *)

\* calls made on the allocator in one run
MaxCalls == 4

\* largest fixed maximum order of the unit-allocation scenario
MaxScenarioOrder == 4

\* calls made on the linked list in one run
MaxListCalls == 5

\* allocations made before the frees of a round trip
MaxRoundTripAllocs == 3

\* the short slices passed to the search and insert functions: every
\* ascending slice of at most MaxSmallLen values out of 0..MaxSmallValue
MaxSmallLen == 3
MaxSmallValue == 3

\* deque calls made on a list that already holds some elements
MaxDequeCalls == 3

\* calls made on the allocator whose freed blocks are allocated again
MaxStackCalls == 7

----------------------------------------------------------------------------
(* Program constants *)

threshold == 64
initialMaxOrder == 10
initialSize == 1024
minimumMaxOrder == 3
minimumCapacity == 8
minGrowSize == 8
defaultInitialSize == 16

----------------------------------------------------------------------------
(* Arithmetic helpers *)

\* F applied to the value of v, with v evaluated once
Bind(v, F(_)) == CHOOSE y \in {F(x) : x \in {v}} : TRUE

RECURSIVE Pow2(_)
\* uint64(1) << n
Pow2(n) == IF n = 0 THEN 1 ELSE 2 * Pow2(n - 1)

Max(a, b) == IF a >= b THEN a ELSE b

Min(a, b) == IF a <= b THEN a ELSE b

RECURSIVE Len64(_)
\* bits.Len64: the number of bits needed to write x, 0 for x = 0
Len64(x) == IF x = 0 THEN 0 ELSE 1 + Len64(x \div 2)

\* a XOR 2^k for a >= 0: flips bit k of a
XorBit(a, k) ==
    IF (a \div Pow2(k)) % 2 = 0 THEN a + Pow2(k) ELSE a - Pow2(k)

----------------------------------------------------------------------------
(* internal/sorted *)

RECURSIVE BinarySearchLoopUpper(_, _, _, _)
\* the loop as it would be with the comparison written slice[mid] <= target
BinarySearchLoopUpper(slice, target, low, high) ==
    IF low < high
    THEN LET mid == (low + high) \div 2
         IN  IF slice[mid + 1] <= target
             THEN BinarySearchLoopUpper(slice, target, mid + 1, high)
             ELSE BinarySearchLoopUpper(slice, target, low, mid)
    ELSE low

RECURSIVE BinarySearchLoop(_, _, _, _)
\* the for low < high loop; returns the final low
BinarySearchLoop(slice, target, low, high) ==
    IF low < high
    THEN LET mid == (low + high) \div 2
         IN  IF slice[mid + 1] < target
             THEN BinarySearchLoop(slice, target, mid + 1, high)
             ELSE BinarySearchLoop(slice, target, low, mid)
    ELSE low

RECURSIVE FirstOfRun(_, _, _)
\* the for low > 0 && slice[low-1] == target loop
FirstOfRun(slice, target, low) ==
    IF low > 0 /\ slice[low] = target
    THEN FirstOfRun(slice, target, low - 1)
    ELSE low

BinarySearchInt(slice, target) ==
    LET low == BinarySearchLoop(slice, target, 0, Len(slice))
    IN  IF low < Len(slice) /\ slice[low + 1] = target
        THEN [index |-> FirstOfRun(slice, target, low), found |-> TRUE]
        ELSE [index |-> low, found |-> FALSE]

RECURSIVE GallopLoop(_, _, _, _)
\* the probing loop; the result of the inner binary search is returned as it
\* is, relative to the sub-slice slice[prevIndex : currentIndex+1]
GallopLoop(slice, target, prevIndex, spanSize) ==
    LET currentIndex == prevIndex + spanSize
    IN  IF currentIndex >= Len(slice)
        THEN BinarySearchInt(SubSeq(slice, prevIndex + 1, Len(slice)), target)
        ELSE IF slice[currentIndex + 1] < target
             THEN GallopLoop(slice, target, currentIndex, 2 * spanSize)
             ELSE BinarySearchInt(SubSeq(slice, prevIndex + 1, currentIndex + 1), target)

GallopingSearchInt(slice, target) ==
    IF Len(slice) < threshold
    THEN BinarySearchInt(slice, target)
    ELSE GallopLoop(slice, target, 0, threshold)

InsertInt(slice, value, allowDuplicates) ==
    Bind(GallopingSearchInt(slice, value), LAMBDA r :
        IF r.found /\ ~allowDuplicates
        THEN slice
        ELSE SubSeq(slice, 1, r.index) \o <<value>> \o SubSeq(slice, r.index + 1, Len(slice)))

----------------------------------------------------------------------------
(* mm: BuddyAllocator *)

orderOf(size) == IF size = 0 THEN 0 ELSE Len64(size) - 1

\* an absent option is written NoOption
NoOption == -1

WithInitialCapacity(opts, capacity) ==
    IF capacity = NoOption THEN opts
    ELSE [opts EXCEPT !.Capacity = Max(capacity, minimumCapacity)]

WithMaxOrder(opts, order) ==
    IF order = NoOption THEN opts
    ELSE [opts EXCEPT !.MaxOrder = Max(order, minimumMaxOrder), !.MaxOrderSet = TRUE]

\* the offsets 0, 2^MaxOrder, 2*2^MaxOrder, ... below Capacity, in order
TopBlocks(capacity, maxOrder) ==
    LET n == (capacity + Pow2(maxOrder) - 1) \div Pow2(maxOrder)
    IN  [i \in 1..n |-> (i - 1) * Pow2(maxOrder)]

NewBuddyAllocator(capacity, order) ==
    LET defaults == [Capacity |-> initialSize, MaxOrder |-> initialMaxOrder, MaxOrderSet |-> FALSE]
        opts     == WithMaxOrder(WithInitialCapacity(defaults, capacity), order)
        block    == Pow2(opts.MaxOrder)
        raised   == IF opts.Capacity < block THEN block ELSE opts.Capacity
        \* (c + (block-1)) & ^(block-1): round up to a multiple of block
        aligned  == ((raised + block - 1) \div block) * block
        state    == [opts EXCEPT !.Capacity = aligned]
    IN  [state     |-> state,
         used      |-> 0,
         freeLists |-> [o \in 1..(state.MaxOrder + 1) |->
                           IF o = state.MaxOrder + 1
                           THEN TopBlocks(state.Capacity, state.MaxOrder)
                           ELSE <<>>]]

\* this.freeLists[order]
FreeList(a, order) == a.freeLists[order + 1]

SetFreeList(a, order, freeList) == [a EXCEPT !.freeLists[order + 1] = freeList]

\* grow as it would be if it did not record the new capacity
growKeepsCapacity(a) ==
    LET newMemoryIndex == a.state.Capacity
        newMemoryOrder == orderOf(Max(Pow2(a.state.MaxOrder), minGrowSize))
    IN  [a EXCEPT !.freeLists[newMemoryOrder + 1] = Append(@, newMemoryIndex)]

\* grow as it would be if it added the new memory as two blocks of half its size
growSplitsNewMemory(a) ==
    LET newMemoryIndex == a.state.Capacity
        newMemorySize  == Max(Pow2(a.state.MaxOrder), minGrowSize)
        halfOrder      == orderOf(newMemorySize) - 1
        newCapacity    == a.state.Capacity + newMemorySize
        newMaxOrder    == IF ~a.state.MaxOrderSet THEN orderOf(newCapacity) ELSE a.state.MaxOrder
        newFreeLists   == IF Len(a.freeLists) <= newMaxOrder
                          THEN [o \in 1..(newMaxOrder + 1) |->
                                   IF o <= Len(a.freeLists) THEN a.freeLists[o] ELSE <<>>]
                          ELSE a.freeLists
    IN  [a EXCEPT !.state.Capacity = newCapacity,
                  !.state.MaxOrder = newMaxOrder,
                  !.freeLists = [newFreeLists EXCEPT ![halfOrder + 1] =
                                    newFreeLists[halfOrder + 1]
                                        \o <<newMemoryIndex,
                                              newMemoryIndex + Pow2(halfOrder)>>]]

grow(a) ==
    LET newMemoryIndex == a.state.Capacity
        newMemorySize  == Max(Pow2(a.state.MaxOrder), minGrowSize)
        newMemoryOrder == orderOf(newMemorySize)
        newCapacity    == a.state.Capacity + newMemorySize
        newMaxOrder    == IF ~a.state.MaxOrderSet THEN orderOf(newCapacity) ELSE a.state.MaxOrder
        newFreeLists   == IF Len(a.freeLists) <= newMaxOrder
                          THEN [o \in 1..(newMaxOrder + 1) |->
                                   IF o <= Len(a.freeLists) THEN a.freeLists[o] ELSE <<>>]
                          ELSE a.freeLists
    IN  [a EXCEPT !.state.Capacity = newCapacity,
                  !.state.MaxOrder = newMaxOrder,
                  !.freeLists = [newFreeLists EXCEPT ![newMemoryOrder + 1] =
                                    Append(newFreeLists[newMemoryOrder + 1], newMemoryIndex)]]

RECURSIVE GrowUntil(_, _)
\* for requiredOrder > this.state.MaxOrder { this.grow() }
GrowUntil(a, requiredOrder) ==
    IF requiredOrder > a.state.MaxOrder
    THEN Bind(grow(a), LAMBDA b : GrowUntil(b, requiredOrder))
    ELSE a

RECURSIVE FirstNonEmpty(_, _)
\* the first order >= order with a non-empty free list, MaxOrder + 1 if none
FirstNonEmpty(a, order) ==
    IF order > a.state.MaxOrder THEN order
    ELSE IF Len(FreeList(a, order)) > 0 THEN order
    ELSE FirstNonEmpty(a, order + 1)

RECURSIVE Split(_, _, _, _)
\* for currentOrder := order; currentOrder > requiredOrder; currentOrder--
Split(a, index, currentOrder, requiredOrder) ==
    IF currentOrder > requiredOrder
    THEN LET buddyIndex == index + Pow2(currentOrder - 1)
         IN  Bind(SetFreeList(a, currentOrder - 1,
                              InsertInt(FreeList(a, currentOrder - 1), buddyIndex, FALSE)),
                  LAMBDA b : Split(b, index, currentOrder - 1, requiredOrder))
    ELSE a

RECURSIVE Allocate(_, _)

\* Allocate as it would be if it grew before testing the fixed maximum order
AllocateGrowsBeforeLimit(a, size) ==
    LET requiredOrder == orderOf(size)
    IN  IF requiredOrder > a.state.MaxOrder /\ a.state.MaxOrderSet
        THEN [alloc |-> grow(a), index |-> 0, grew |-> TRUE, ok |-> FALSE, retries |-> 0]
        ELSE LET b     == GrowUntil(a, requiredOrder)
                 order == FirstNonEmpty(b, requiredOrder)
                 c     == IF order <= b.state.MaxOrder THEN b ELSE grow(b)
                 from  == FirstNonEmpty(c, requiredOrder)
                 stack == FreeList(c, from)
                 index == stack[Len(stack)]
                 d     == Split(SetFreeList(c, from, SubSeq(stack, 1, Len(stack) - 1)),
                                index, from, requiredOrder)
             IN  [alloc |-> [d EXCEPT !.used = @ + size], index |-> index,
                  grew |-> (requiredOrder > a.state.MaxOrder \/ order > b.state.MaxOrder),
                  ok |-> TRUE, retries |-> IF order > b.state.MaxOrder THEN 1 ELSE 0]

\* returns [alloc, index, grew, ok, retries]: the allocator after the call, the
\* results, and the number of times the call grew and called itself again
Allocate(a, size) ==
    LET requiredOrder == orderOf(size)
    IN  IF requiredOrder > a.state.MaxOrder /\ a.state.MaxOrderSet
        THEN [alloc |-> a, index |-> 0, grew |-> FALSE, ok |-> FALSE, retries |-> 0]
        ELSE Bind(GrowUntil(a, requiredOrder), LAMBDA b :
             LET grew  == requiredOrder > a.state.MaxOrder
                 order == FirstNonEmpty(b, requiredOrder)
             IN  IF order <= b.state.MaxOrder
                 THEN LET stack == FreeList(b, order)
                          index == stack[Len(stack)]
                          c     == SetFreeList(b, order, SubSeq(stack, 1, Len(stack) - 1))
                          d     == Split(c, index, order, requiredOrder)
                      IN  [alloc |-> [d EXCEPT !.used = @ + size],
                           index |-> index, grew |-> grew, ok |-> TRUE, retries |-> 0]
                 ELSE Bind(Allocate(grow(b), size), LAMBDA r :
                      [alloc |-> r.alloc, index |-> r.index, grew |-> TRUE, ok |-> r.ok,
                       retries |-> r.retries + 1]))

ClearAll(a) ==
    [a EXCEPT !.used = 0,
              !.freeLists = [o \in 1..Len(a.freeLists) |->
                                IF o = a.state.MaxOrder + 1
                                THEN TopBlocks(a.state.Capacity, a.state.MaxOrder)
                                ELSE IF o <= a.state.MaxOrder THEN <<>> ELSE a.freeLists[o]]]

\* the double-free sweep: index is in some order's free list
InSomeFreeList(a, index) ==
    \E currentOrder \in 0..a.state.MaxOrder :
        GallopingSearchInt(FreeList(a, currentOrder), index).found

\* slice with the element at 0-based position i removed
RemoveAt(slice, i) == SubSeq(slice, 1, i) \o SubSeq(slice, i + 2, Len(slice))

RECURSIVE FreeLoop(_, _, _)
\* the merge loop of Free and the insert after it; returns [alloc, ok]
FreeLoop(a, currentIndex, currentOrder) ==
    IF currentOrder < a.state.MaxOrder
    THEN IF currentIndex % Pow2(currentOrder + 1) # 0
         THEN [alloc |-> a, ok |-> FALSE]
         ELSE LET buddyIndex == XorBit(currentIndex, currentOrder)
              IN  Bind(GallopingSearchInt(FreeList(a, currentOrder), buddyIndex), LAMBDA r :
                  IF r.found
                  THEN Bind(SetFreeList(a, currentOrder, RemoveAt(FreeList(a, currentOrder), r.index)),
                            LAMBDA b : FreeLoop(b, Min(currentIndex, buddyIndex), currentOrder + 1))
                  ELSE [alloc |-> SetFreeList(a, currentOrder,
                                              InsertInt(FreeList(a, currentOrder), currentIndex, FALSE)),
                        ok |-> TRUE])
    ELSE [alloc |-> SetFreeList(a, a.state.MaxOrder,
                                InsertInt(FreeList(a, a.state.MaxOrder), currentIndex, FALSE)),
          ok |-> TRUE]

\* Free as it would be with the range test written index > capacity
FreeAcceptsCapacity(a, index, size) ==
    IF index > a.state.Capacity THEN [alloc |-> a, ok |-> FALSE]
    ELSE IF InSomeFreeList(a, index) THEN [alloc |-> a, ok |-> FALSE]
    ELSE FreeLoop([a EXCEPT !.used = @ - size], index, orderOf(size))

\* returns [alloc, ok]
Free(a, index, size) ==
    IF index >= a.state.Capacity THEN [alloc |-> a, ok |-> FALSE]
    ELSE IF InSomeFreeList(a, index) THEN [alloc |-> a, ok |-> FALSE]
    ELSE FreeLoop([a EXCEPT !.used = @ - size], index, orderOf(size))

Capacity(a) == a.state.Capacity

Used(a) == a.used

----------------------------------------------------------------------------
(* ll: LinkedList.  nodes and values are Go slices: the element at index i  *)
(* is nodes[i + 1] here.                                                    *)

Nil == [nil |-> TRUE]

zeroNode == [next |-> 0, previous |-> 0, valueIndex |-> 0]

zeroValue == 0

\* this.nodes[i]
NodeAt(l, i) == l.nodes[i + 1]

\* this.values[i]
ValueAt(l, i) == l.values[i + 1]

\* make([]T, n) followed by copy(new, old)
CopyGrow(old, n, zero) ==
    [i \in 1..n |-> IF i <= Len(old) THEN old[i] ELSE zero]

NewLinkedList(initialSizeArg) ==
    LET n == IF initialSizeArg = NoOption THEN defaultInitialSize
             ELSE Max(initialSizeArg, defaultInitialSize)
    IN  [head   |-> 0,
         tail   |-> 0,
         size   |-> 0,
         nodes  |-> [i \in 1..(n + 1) |-> zeroNode],
         values |-> [i \in 1..(n + 1) |-> zeroValue],
         memory |-> NewBuddyAllocator(n, NoOption)]

\* the handle Head, Tail, PopHead and PopTail build for the node at index i
HandleOf(l, i) ==
    LET node == NodeAt(l, i)
    IN  [nil |-> FALSE, Value |-> ValueAt(l, node.valueIndex), valueIndex |-> node.valueIndex,
         linkedList |-> "this", next |-> node.next, previous |-> node.previous]

\* the handle Next and Previous build: valueIndex is left at its zero value
NeighbourHandleOf(l, i) ==
    [HandleOf(l, i) EXCEPT !.valueIndex = 0]

ListHead(l) == IF l.head = 0 THEN Nil ELSE HandleOf(l, l.head)

ListTail(l) == IF l.tail = 0 THEN Nil ELSE HandleOf(l, l.tail)

\* this.Next() on a handle that is not nil
NextOf(l, h) == IF h.next = 0 THEN Nil ELSE NeighbourHandleOf(l, h.next)

\* this.Previous() on a handle that is not nil
PreviousOf(l, h) == IF h.previous = 0 THEN Nil ELSE NeighbourHandleOf(l, h.previous)

RECURSIVE FindLoop(_, _, _, _)
\* the loop of findNodeIndex from currentIndex; -1 when it does not end (the
\* chain cycles without reaching the value index); steps counts the nodes seen
FindLoop(l, valueIndex, currentIndex, steps) ==
    IF currentIndex = 0 THEN 0
    ELSE IF NodeAt(l, currentIndex).valueIndex = valueIndex THEN currentIndex
    ELSE IF steps > Len(l.nodes) THEN -1
    ELSE FindLoop(l, valueIndex, NodeAt(l, currentIndex).next, steps + 1)

findNodeIndex(l, node) == FindLoop(l, node.valueIndex, l.head, 0)

\* the start of Append, Prepend, InsertNext and InsertPrevious: lease a slot,
\* copy-grow the arrays when the allocator grew, store the value.
\* Returns [list, newNodeIndex, panic]; the store panics past the arrays' end.
LeaseSlot(l, value) ==
    Bind(Allocate(l.memory, 1), LAMBDA r :
    LET newNodeIndex == r.index + 1
        n            == Capacity(r.alloc) + 1
        grown        == IF r.grew
                        THEN [l EXCEPT !.memory = r.alloc,
                                       !.nodes = CopyGrow(l.nodes, n, zeroNode),
                                       !.values = CopyGrow(l.values, n, zeroValue)]
                        ELSE [l EXCEPT !.memory = r.alloc]
    IN  IF newNodeIndex >= Len(grown.values)
        THEN [list |-> grown, newNodeIndex |-> newNodeIndex, panic |-> TRUE]
        ELSE [list |-> [grown EXCEPT !.values[newNodeIndex + 1] = value],
              newNodeIndex |-> newNodeIndex, panic |-> FALSE])

\* ListAppend, ListHead and ListTail are Append, Head and Tail of the list
\* (the plain names are operators of Sequences).
\* every list operation returns [list, handle, ret, fault]: the list after the
\* call, the receiver or argument handle after it, the returned handle

ListAppend(l, value) ==
    Bind(LeaseSlot(l, value), LAMBDA s :
    LET i == s.newNodeIndex
        a == [s.list EXCEPT !.nodes[i + 1] = [next |-> 0, previous |-> l.tail, valueIndex |-> i]]
        b == IF l.tail # 0 THEN [a EXCEPT !.nodes[l.tail + 1].next = i] ELSE a
        c == [b EXCEPT !.tail = i, !.head = IF l.head = 0 THEN i ELSE l.head, !.size = @ + 1]
    IN  IF s.panic THEN [list |-> s.list, fault |-> "panic"]
        ELSE [list |-> c, fault |-> "none"])

Prepend(l, value) ==
    Bind(LeaseSlot(l, value), LAMBDA s :
    LET i == s.newNodeIndex
        a == [s.list EXCEPT !.nodes[i + 1] = [next |-> l.head, previous |-> 0, valueIndex |-> i]]
        b == IF l.head # 0 THEN [a EXCEPT !.nodes[l.head + 1].previous = i] ELSE a
        c == [b EXCEPT !.head = i, !.tail = IF l.tail = 0 THEN i ELSE l.tail, !.size = @ + 1]
    IN  IF s.panic THEN [list |-> s.list, fault |-> "panic"]
        ELSE [list |-> c, fault |-> "none"])

\* returns [list, ret]
PopHead(l) ==
    IF l.head = 0 THEN [list |-> l, ret |-> Nil]
    ELSE LET nodeIndex == l.head
             a == [l EXCEPT !.memory = Free(l.memory, nodeIndex - 1, 1).alloc]
             b == [a EXCEPT !.head = NodeAt(a, nodeIndex).next]
             c == IF b.head # 0 THEN [b EXCEPT !.nodes[b.head + 1].previous = 0]
                  ELSE [b EXCEPT !.tail = 0]
             d == [c EXCEPT !.size = @ - 1]
         IN  [list |-> d, ret |-> HandleOf(d, nodeIndex)]

\* returns [list, ret]
PopTail(l) ==
    IF l.tail = 0 THEN [list |-> l, ret |-> Nil]
    ELSE LET nodeIndex == l.tail
             a == [l EXCEPT !.memory = Free(l.memory, nodeIndex - 1, 1).alloc]
             b == [a EXCEPT !.tail = NodeAt(a, nodeIndex).previous]
             c == IF b.tail # 0 THEN [b EXCEPT !.nodes[b.tail + 1].next = 0]
                  ELSE [b EXCEPT !.head = 0]
             d == [c EXCEPT !.size = @ - 1]
         IN  [list |-> d, ret |-> HandleOf(d, nodeIndex)]

\* returns [list, fault]
Remove(l, node) ==
    IF node.nil \/ node.linkedList # "this" THEN [list |-> l, fault |-> "none"]
    ELSE LET a == IF node.previous # 0
                  THEN [l EXCEPT !.nodes[node.previous + 1].next = node.next]
                  ELSE [l EXCEPT !.head = node.next]
             b == IF node.next # 0
                  THEN [a EXCEPT !.nodes[node.next + 1].previous = node.previous]
                  ELSE [a EXCEPT !.tail = node.previous]
         IN  Bind(findNodeIndex(b, node), LAMBDA found :
             IF found = -1 THEN [list |-> b, fault |-> "hang"]
             ELSE [list |-> [b EXCEPT !.memory = Free(b.memory, found, 1).alloc,
                                      !.size = @ - 1],
                   fault |-> "none"])

\* this.InsertNext(value) on a handle that is not nil; returns [list, handle, fault]
InsertNext(l, this, value) ==
    Bind(LeaseSlot(l, value), LAMBDA s :
    Bind(findNodeIndex(s.list, this), LAMBDA thisIndex :
    LET i == s.newNodeIndex
        a == [s.list EXCEPT !.nodes[i + 1] =
                 [next |-> this.next, previous |-> thisIndex, valueIndex |-> i]]
        b == IF this.next # 0 THEN [a EXCEPT !.nodes[this.next + 1].previous = i]
             ELSE [a EXCEPT !.tail = i]
        c == [b EXCEPT !.nodes[thisIndex + 1].next = i, !.size = @ + 1]
    IN  IF s.panic THEN [list |-> s.list, handle |-> this, fault |-> "panic"]
        ELSE IF thisIndex = -1 THEN [list |-> s.list, handle |-> this, fault |-> "hang"]
        ELSE [list |-> c, handle |-> [this EXCEPT !.next = i], fault |-> "none"]))

\* this.InsertPrevious(value) on a handle that is not nil; returns [list, handle, fault]
InsertPrevious(l, this, value) ==
    Bind(LeaseSlot(l, value), LAMBDA s :
    Bind(findNodeIndex(s.list, this), LAMBDA thisIndex :
    LET i == s.newNodeIndex
        a == [s.list EXCEPT !.nodes[i + 1] =
                 [next |-> thisIndex, previous |-> this.previous, valueIndex |-> i]]
        b == IF this.previous # 0 THEN [a EXCEPT !.nodes[this.previous + 1].next = i]
             ELSE [a EXCEPT !.head = i]
        c == [b EXCEPT !.nodes[thisIndex + 1].previous = i, !.size = @ + 1]
    IN  IF s.panic THEN [list |-> s.list, handle |-> this, fault |-> "panic"]
        ELSE IF thisIndex = -1 THEN [list |-> s.list, handle |-> this, fault |-> "hang"]
        ELSE [list |-> c, handle |-> [this EXCEPT !.previous = i], fault |-> "none"]))

Size(l) == l.size

\* the list variables while only the allocator is driven
ListIdle ==
    /\ list = NewLinkedList(NoOption)
    /\ handle = Nil
    /\ fresh = FALSE
    /\ fault = "none"

----------------------------------------------------------------------------
(* The allocator driven by arbitrary calls *)

\* WithInitialCapacity arguments tried at construction (NoOption: not given)
InitialCapacities == {NoOption, 8, 2048}

\* WithMaxOrder arguments tried at construction (NoOption: not given)
MaxOrders == {NoOption, 3}

\* sizes passed to Allocate
Sizes == {1, 2, 3, 4, 2048}

\* result fields: op, index, size are the call; grew, ok what it returned;
\* wasLive, inside, inRange, inFree and clean describe the state before a Free:
\* the pair was a live allocation, the index lay strictly inside a live block,
\* the index was below the capacity, the index was in a free list, and no
\* earlier call had misused Free
NoCall == [op |-> "New", index |-> 0, size |-> 0, grew |-> FALSE, ok |-> TRUE,
           wasLive |-> FALSE, inside |-> FALSE, inRange |-> TRUE, inFree |-> FALSE,
           clean |-> TRUE, retries |-> 0]

\* index is strictly inside the block of a live allocation and starts none
InsideLive(index) ==
    /\ \E l \in live : l.index < index /\ index < l.index + Pow2(orderOf(l.size))
    /\ \A l \in live : l.index # index

\* offsets added to the start of an allocation to form the index passed to Free
Offsets == {0, 1, 2}

\* (index, size) pairs passed to Free: a live allocation or the pair of the
\* last call, at an offset from its start, with its own size or size 1; and
\* indices at and past the capacity
FreeArgs ==
    LET bases == live \cup {[index |-> result.index, size |-> Max(result.size, 1)]}
    IN  UNION {{<<l.index + d, l.size>>, <<l.index + d, 1>>} : l \in bases, d \in Offsets}
            \cup {<<Capacity(allocator) + d, 1>> : d \in Offsets}

\* allocs: Allocate(1) calls made; pending: the indices they returned that
\* were not yet passed to Free; freeing: the frees have begun
NoScenario == [allocs |-> 0, pending |-> {}, freeing |-> FALSE]

Init ==
    /\ \E capacity \in InitialCapacities, order \in MaxOrders :
           allocator = NewBuddyAllocator(capacity, order)
    /\ live = {}
    /\ result = NoCall
    /\ misuse = FALSE
    /\ calls = 0
    /\ scenario = NoScenario
    /\ ListIdle

DoAllocate ==
    /\ calls < MaxCalls
    /\ \E size \in Sizes :
           LET r == Allocate(allocator, size)
           IN  /\ allocator' = r.alloc
               /\ live' = IF r.ok THEN live \cup {[index |-> r.index, size |-> size]} ELSE live
               /\ result' = [NoCall EXCEPT !.op = "Allocate", !.index = r.index, !.size = size,
                                           !.grew = r.grew, !.ok = r.ok, !.clean = ~misuse,
                                           !.retries = r.retries]
    /\ UNCHANGED <<misuse, scenario, listVars>>
    /\ calls' = calls + 1

DoFree ==
    /\ calls < MaxCalls
    /\ \E args \in FreeArgs :
           LET index == args[1]
               size  == args[2]
               r     == Free(allocator, index, size)
               l     == [index |-> index, size |-> size]
           IN  /\ allocator' = r.alloc
               /\ live' = IF r.ok THEN live \ {l} ELSE live
               /\ result' = [op |-> "Free", index |-> index, size |-> size,
                             grew |-> FALSE, ok |-> r.ok, wasLive |-> l \in live,
                             inside |-> InsideLive(index),
                             inRange |-> index < Capacity(allocator),
                             inFree |-> InSomeFreeList(allocator, index),
                             clean |-> ~misuse, retries |-> 0]
               /\ misuse' = (misuse \/ l \notin live)
    /\ calls' = calls + 1
    /\ UNCHANGED <<scenario, listVars>>

DoClearAll ==
    /\ calls < MaxCalls
    /\ allocator' = ClearAll(allocator)
    /\ live' = {}
    /\ result' = [NoCall EXCEPT !.op = "ClearAll", !.clean = ~misuse]
    /\ UNCHANGED <<misuse, scenario, listVars>>
    /\ calls' = calls + 1

Next == DoAllocate \/ DoFree \/ DoClearAll

Spec == Init /\ [][Next]_vars

----------------------------------------------------------------------------
(* The unit-allocation scenario of TestBuddyAllocator: an allocator with a   *)
(* fixed maximum order m and capacity 2^m, Allocate(1) up to 2^m + 1 times, *)
(* then Free(i, 1) of every returned index i in increasing order.           *)

ScenarioOrders == minimumMaxOrder..MaxScenarioOrder

\* the least element of a non-empty set of numbers
Least(S) == CHOOSE x \in S : \A y \in S : x <= y

ScenarioInit ==
    /\ \E m \in ScenarioOrders : allocator = NewBuddyAllocator(Pow2(m), m)
    /\ live = {}
    /\ result = NoCall
    /\ misuse = FALSE
    /\ calls = 0
    /\ scenario = NoScenario
    /\ ListIdle

ScenarioAllocate ==
    /\ ~scenario.freeing
    /\ scenario.allocs < Pow2(allocator.state.MaxOrder) + 1
    /\ LET r == Allocate(allocator, 1)
       IN  /\ allocator' = r.alloc
           /\ live' = IF r.ok THEN live \cup {[index |-> r.index, size |-> 1]} ELSE live
           /\ result' = [NoCall EXCEPT !.op = "Allocate", !.index = r.index, !.size = 1,
                                       !.grew = r.grew, !.ok = r.ok, !.retries = r.retries]
           /\ scenario' = [scenario EXCEPT !.allocs = @ + 1,
                                           !.pending = IF r.ok THEN @ \cup {r.index} ELSE @]
    /\ calls' = calls + 1
    /\ UNCHANGED <<misuse, listVars>>

ScenarioFree ==
    /\ scenario.pending # {}
    /\ LET index == Least(scenario.pending)
           r     == Free(allocator, index, 1)
           l     == [index |-> index, size |-> 1]
       IN  /\ allocator' = r.alloc
           /\ live' = IF r.ok THEN live \ {l} ELSE live
           /\ result' = [op |-> "Free", index |-> index, size |-> 1,
                         grew |-> FALSE, ok |-> r.ok, wasLive |-> l \in live,
                         inside |-> InsideLive(index),
                         inRange |-> index < Capacity(allocator),
                         inFree |-> InSomeFreeList(allocator, index),
                         clean |-> ~misuse, retries |-> 0]
           /\ scenario' = [scenario EXCEPT !.pending = @ \ {index}, !.freeing = TRUE]
    /\ calls' = calls + 1
    /\ UNCHANGED <<misuse, listVars>>

ScenarioNext == ScenarioAllocate \/ ScenarioFree

SpecScenario == ScenarioInit /\ [][ScenarioNext]_vars

\* C4: with fixed maximum order m and capacity 2^m, each of the first 2^m
\* calls Allocate(1) returns ok=true and grew=false, with pairwise distinct
\* indices below the capacity; the next one returns ok=true and grew=true and
\* Used() is then 2^m + 1; after Free of every index in increasing order
\* Used() is 0.
C4_UnitScenario ==
    LET m == allocator.state.MaxOrder
        n == scenario.allocs
    IN  /\ (result.op = "Allocate" /\ n <= Pow2(m))
               => /\ result.ok /\ ~result.grew
                  /\ Cardinality(scenario.pending) = n
                  /\ \A i \in scenario.pending : i < Capacity(allocator)
                  /\ Used(allocator) = n
        /\ (result.op = "Allocate" /\ n = Pow2(m) + 1)
               => /\ result.ok /\ result.grew
                  /\ Cardinality(scenario.pending) = n
                  /\ Used(allocator) = Pow2(m) + 1
        /\ (scenario.freeing /\ scenario.pending = {})
               => Used(allocator) = 0

C4_Witness ==
    /\ scenario.freeing /\ scenario.pending = {}
    /\ scenario.allocs = Pow2(allocator.state.MaxOrder) + 1
    /\ result.op = "Free" /\ result.index = Pow2(allocator.state.MaxOrder)

----------------------------------------------------------------------------
(* Round trips: a freshly constructed allocator, some allocations, then     *)
(* Free of every allocated (index, size) exactly once, in any order.        *)

\* (WithInitialCapacity, WithMaxOrder) arguments of the round trips
RoundTripOptions == {<<minimumCapacity, minimumMaxOrder>>, <<NoOption, minimumMaxOrder>>,
                     <<NoOption, NoOption>>}

\* sizes allocated in a round trip: small blocks and whole top-order blocks
RoundTripSizes == {1, 2, Pow2(minimumMaxOrder), Pow2(initialMaxOrder)}

RoundTripInit ==
    /\ \E o \in RoundTripOptions : allocator = NewBuddyAllocator(o[1], o[2])
    /\ scenario = [allocs |-> 0, pending |-> {}, freeing |-> FALSE,
                   initial |-> allocator, grew |-> FALSE]
    /\ live = {}
    /\ result = NoCall
    /\ misuse = FALSE
    /\ calls = 0
    /\ ListIdle

RoundTripAllocate ==
    /\ ~scenario.freeing
    /\ scenario.allocs < MaxRoundTripAllocs
    /\ \E size \in RoundTripSizes :
           LET r == Allocate(allocator, size)
               l == [index |-> r.index, size |-> size]
           IN  /\ allocator' = r.alloc
               /\ live' = IF r.ok THEN live \cup {l} ELSE live
               /\ result' = [NoCall EXCEPT !.op = "Allocate", !.index = r.index,
                                           !.size = size, !.grew = r.grew, !.ok = r.ok,
                                           !.retries = r.retries]
               /\ scenario' = [scenario EXCEPT !.allocs = @ + 1,
                                               !.pending = IF r.ok THEN @ \cup {l} ELSE @,
                                               !.grew = @ \/ r.grew]
    /\ calls' = calls + 1
    /\ UNCHANGED <<misuse, listVars>>

RoundTripFree ==
    /\ \E l \in scenario.pending :
           LET r == Free(allocator, l.index, l.size)
           IN  /\ allocator' = r.alloc
               /\ live' = IF r.ok THEN live \ {l} ELSE live
               /\ result' = [op |-> "Free", index |-> l.index, size |-> l.size,
                             grew |-> FALSE, ok |-> r.ok, wasLive |-> l \in live,
                             inside |-> InsideLive(l.index),
                             inRange |-> l.index < Capacity(allocator),
                             inFree |-> InSomeFreeList(allocator, l.index),
                             clean |-> ~misuse, retries |-> 0]
               /\ scenario' = [scenario EXCEPT !.pending = @ \ {l}, !.freeing = TRUE]
    /\ calls' = calls + 1
    /\ UNCHANGED <<misuse, listVars>>

RoundTripNext == RoundTripAllocate \/ RoundTripFree

SpecRoundTrip == RoundTripInit /\ [][RoundTripNext]_vars

\* C11: after allocations that caused no growth, Free of every allocated
\* (index, size) exactly once, in any order, returns Used() to 0 and the free
\* lists to their shape at construction: the lower orders empty, the top
\* order holding the offsets it held then.
C11_RoundTripRestoresShape ==
    (scenario.freeing /\ scenario.pending = {} /\ ~scenario.grew)
        => /\ Used(allocator) = 0
           /\ allocator.freeLists = scenario.initial.freeLists

----------------------------------------------------------------------------
(* internal/sorted applied to ascending slices: short ones of every shape,  *)
(* and long ones around the galloping threshold and its doubled spans.      *)

IsAscending(slice) == \A i \in 1..(Len(slice) - 1) : slice[i] <= slice[i + 1]

SmallSlices ==
    {slice \in UNION {[1..n -> 0..MaxSmallValue] : n \in 0..MaxSmallLen} : IsAscending(slice)}

\* lengths of the long slices
LargeLengths == {threshold - 1, threshold, threshold + 1, 2 * threshold + 1, 2 * threshold + 2}

\* 0, 2, 4, ...: distinct values with gaps
Evens(n) == [i \in 1..n |-> 2 * (i - 1)]

\* 0, 0, 2, 2, 4, 4, ...: every value twice
Pairs(n) == [i \in 1..n |-> 2 * ((i - 1) \div 2)]

LargeSlices == {Evens(n) : n \in LargeLengths} \cup {Pairs(n) : n \in LargeLengths}

\* targets tried on a slice: from below its least value to above its greatest
TargetsOf(slice) ==
    IF slice = <<>> THEN {0} ELSE (slice[1] - 1)..(slice[Len(slice)] + 1)

\* result fields: op is the function applied; index, found what a search
\* returned; allowDuplicates the flag passed to InsertInt and out its result
NoSearch == [op |-> "none", index |-> 0, found |-> FALSE,
             allowDuplicates |-> FALSE, out |-> <<>>]

SortedInit ==
    /\ \E slice \in SmallSlices \cup LargeSlices :
           \E target \in TargetsOf(slice) :
               scenario = [slice |-> slice, target |-> target]
    /\ result = NoSearch
    /\ calls = 0
    /\ allocator = NewBuddyAllocator(NoOption, NoOption)
    /\ live = {}
    /\ misuse = FALSE
    /\ ListIdle

DoBinarySearchInt ==
    /\ calls = 0
    /\ LET r == BinarySearchInt(scenario.slice, scenario.target)
       IN  result' = [NoSearch EXCEPT !.op = "BinarySearchInt",
                                      !.index = r.index, !.found = r.found]
    /\ calls' = 1
    /\ UNCHANGED <<allocator, live, misuse, scenario, listVars>>

DoGallopingSearchInt ==
    /\ calls = 0
    /\ LET r == GallopingSearchInt(scenario.slice, scenario.target)
       IN  result' = [NoSearch EXCEPT !.op = "GallopingSearchInt",
                                      !.index = r.index, !.found = r.found]
    /\ calls' = 1
    /\ UNCHANGED <<allocator, live, misuse, scenario, listVars>>

DoInsertInt ==
    /\ calls = 0
    /\ \E allowDuplicates \in BOOLEAN :
           result' = [NoSearch EXCEPT !.op = "InsertInt",
                                      !.allowDuplicates = allowDuplicates,
                                      !.out = InsertInt(scenario.slice, scenario.target,
                                                        allowDuplicates)]
    /\ calls' = 1
    /\ UNCHANGED <<allocator, live, misuse, scenario, listVars>>

SortedNext == DoBinarySearchInt \/ DoGallopingSearchInt \/ DoInsertInt

SpecSorted == SortedInit /\ [][SortedNext]_vars

\* the 0-based positions of target in slice
Occurrences(slice, target) == {i \in 0..(Len(slice) - 1) : slice[i + 1] = target}

\* the number of elements of slice smaller than target
SmallerThan(slice, target) == Cardinality({i \in 1..Len(slice) : slice[i] < target})

\* what a search of the whole slice has to return
IsSearchResult(slice, target, index, found) ==
    /\ found <=> Occurrences(slice, target) # {}
    /\ found => index \in Occurrences(slice, target)
                 /\ \A i \in Occurrences(slice, target) : index <= i
    /\ ~found => index = SmallerThan(slice, target)

\* C13: GallopingSearchInt returns the (index, found) pair BinarySearchInt
\* returns on the whole slice: found means slice[index] = target at the first
\* occurrence, not found gives the insertion index in the whole slice.
C13_GallopingMatchesBinary ==
    result.op = "GallopingSearchInt"
        => LET r == BinarySearchInt(scenario.slice, scenario.target)
           IN  /\ result.index = r.index /\ result.found = r.found
               /\ IsSearchResult(scenario.slice, scenario.target, result.index, result.found)

\* C14: BinarySearchInt returns found=true iff the target occurs; when found,
\* index is the first occurrence; when not found, index is the number of
\* elements smaller than the target.
C14_BinarySearchIsLowerBound ==
    result.op = "BinarySearchInt"
        => IsSearchResult(scenario.slice, scenario.target, result.index, result.found)

C14_Witness ==
    /\ result.op = "BinarySearchInt" /\ result.found
    /\ Len(scenario.slice) > threshold
    /\ Cardinality(Occurrences(scenario.slice, scenario.target)) > 1
    /\ result.index > threshold

\* the number of times value occurs in slice
Count(slice, value) == Cardinality(Occurrences(slice, value))

\* C15: InsertInt returns an ascending slice holding the input plus the
\* value, one element longer; or the input unchanged when allowDuplicates is
\* false and the value is already present.
C15_InsertKeepsOrder ==
    result.op = "InsertInt"
        => LET slice == scenario.slice
               value == scenario.target
               out   == result.out
           IN  /\ IsAscending(out)
               /\ IF ~result.allowDuplicates /\ Occurrences(slice, value) # {}
                  THEN out = slice
                  ELSE /\ Len(out) = Len(slice) + 1
                       /\ \A v \in {out[i] : i \in 1..Len(out)} :
                              Count(out, v) = Count(slice, v) + (IF v = value THEN 1 ELSE 0)

----------------------------------------------------------------------------
(* The linked list driven by arbitrary calls.  The caller holds one handle. *)
(* A call that panics or does not return ends the run.                      *)

\* initialSize arguments tried at construction (NoOption: not given)
InitialSizes == {NoOption}

\* values are opaque to the list: each call stores a value not stored before,
\* which tells the nodes apart
NewValues == {calls + 1}

\* the allocator variables while only the list is driven
AllocatorIdle ==
    /\ allocator = NewBuddyAllocator(NoOption, NoOption)
    /\ live = {}
    /\ result = NoCall
    /\ misuse = FALSE
    /\ scenario = NoScenario

ListInit ==
    /\ \E n \in InitialSizes : list = NewLinkedList(n)
    /\ handle = Nil
    /\ fresh = FALSE
    /\ fault = "none"
    /\ calls = 0
    /\ AllocatorIdle

\* what every list call has in common; misused: the call was made on a
\* handle that is nil or was taken before the last change of the list
ListCall(op, ret, misused) ==
    /\ calls' = calls + 1
    /\ result' = [op |-> op, ret |-> ret]
    /\ misuse' = (misuse \/ misused)
    /\ UNCHANGED <<allocator, live, scenario>>

CanCall == fault = "none" /\ calls < MaxListCalls

DoAppend ==
    /\ CanCall
    /\ \E value \in NewValues :
           LET r == ListAppend(list, value)
           IN  list' = r.list /\ fault' = r.fault
    /\ fresh' = FALSE
    /\ UNCHANGED handle
    /\ ListCall("Append", Nil, FALSE)

DoPrepend ==
    /\ CanCall
    /\ \E value \in NewValues :
           LET r == Prepend(list, value)
           IN  list' = r.list /\ fault' = r.fault
    /\ fresh' = FALSE
    /\ UNCHANGED handle
    /\ ListCall("Prepend", Nil, FALSE)

DoPopHead ==
    /\ CanCall
    /\ LET r == PopHead(list)
       IN  list' = r.list /\ ListCall("PopHead", r.ret, FALSE)
    /\ fresh' = FALSE
    /\ UNCHANGED <<handle, fault>>

DoPopTail ==
    /\ CanCall
    /\ LET r == PopTail(list)
       IN  list' = r.list /\ ListCall("PopTail", r.ret, FALSE)
    /\ fresh' = FALSE
    /\ UNCHANGED <<handle, fault>>

DoHead ==
    /\ CanCall
    /\ handle' = ListHead(list)
    /\ fresh' = TRUE
    /\ UNCHANGED <<list, fault>>
    /\ ListCall("Head", handle', FALSE)

DoTail ==
    /\ CanCall
    /\ handle' = ListTail(list)
    /\ fresh' = TRUE
    /\ UNCHANGED <<list, fault>>
    /\ ListCall("Tail", handle', FALSE)

\* handle = handle.Next(); a method called on a nil handle panics
DoNext ==
    /\ CanCall
    /\ IF handle.nil
       THEN fault' = "panic" /\ UNCHANGED handle
       ELSE handle' = NextOf(list, handle) /\ UNCHANGED fault
    /\ UNCHANGED <<list, fresh>>
    /\ ListCall("Next", handle', handle.nil \/ ~fresh)

\* handle = handle.Previous()
DoPrevious ==
    /\ CanCall
    /\ IF handle.nil
       THEN fault' = "panic" /\ UNCHANGED handle
       ELSE handle' = PreviousOf(list, handle) /\ UNCHANGED fault
    /\ UNCHANGED <<list, fresh>>
    /\ ListCall("Previous", handle', handle.nil \/ ~fresh)

\* handle.InsertNext(value)
DoInsertNext ==
    /\ CanCall
    /\ IF handle.nil
       THEN fault' = "panic" /\ UNCHANGED <<list, handle>>
       ELSE \E value \in NewValues :
               LET r == InsertNext(list, handle, value)
               IN  list' = r.list /\ handle' = r.handle /\ fault' = r.fault
    /\ fresh' = FALSE
    /\ ListCall("InsertNext", Nil, handle.nil \/ ~fresh)

\* handle.InsertPrevious(value)
DoInsertPrevious ==
    /\ CanCall
    /\ IF handle.nil
       THEN fault' = "panic" /\ UNCHANGED <<list, handle>>
       ELSE \E value \in NewValues :
               LET r == InsertPrevious(list, handle, value)
               IN  list' = r.list /\ handle' = r.handle /\ fault' = r.fault
    /\ fresh' = FALSE
    /\ ListCall("InsertPrevious", Nil, handle.nil \/ ~fresh)

\* list.Remove(handle)
DoRemove ==
    /\ CanCall
    /\ LET r == Remove(list, handle)
       IN  list' = r.list /\ fault' = r.fault
    /\ fresh' = FALSE
    /\ UNCHANGED handle
    /\ ListCall("Remove", Nil, ~handle.nil /\ ~fresh)

ListNext ==
    \/ DoAppend \/ DoPrepend \/ DoPopHead \/ DoPopTail
    \/ DoHead \/ DoTail \/ DoNext \/ DoPrevious
    \/ DoInsertNext \/ DoInsertPrevious \/ DoRemove

SpecList == ListInit /\ [][ListNext]_vars

----------------------------------------------------------------------------
(* Properties of the list under SpecList *)

RECURSIVE Walk(_, _, _)
\* the indices visited by following next from index i, cut after steps nodes
Walk(l, i, steps) ==
    IF i = 0 \/ steps = 0 THEN <<>>
    ELSE <<i>> \o Walk(l, NodeAt(l, i).next, steps - 1)

\* the nodes reachable from head by next; longer than any acyclic chain can
\* be exactly when the chain cycles
Forward(l) == Walk(l, l.head, Len(l.nodes) + 1)

\* the values read by walking next from Head()
ForwardValues(l) ==
    LET chain == Forward(l)
    IN  [i \in 1..Len(chain) |-> ValueAt(l, NodeAt(l, chain[i]).valueIndex)]

\* C2: following next from head visits exactly Size() nodes, the last one is
\* tail, and the step after tail yields 0.  Stated for the runs in which
\* every handle was used before the list changed again; the claim covers
\* every run, so a violation here refutes it.
C2_ForwardChainMatchesSize ==
    (~misuse /\ fault = "none")
        => LET chain == Forward(list)
           IN  /\ Len(chain) = Size(list)
               /\ IF chain = <<>> THEN list.head = 0 /\ list.tail = 0
                  ELSE /\ chain[Len(chain)] = list.tail
                       /\ NodeAt(list, list.tail).next = 0

\* the list is well formed: the forward chain has Size() nodes, ends at
\* tail, and the previous links mirror the next links
WellFormed(l) ==
    LET chain == Forward(l)
    IN  /\ Len(chain) = Size(l)
        /\ IF chain = <<>> THEN l.head = 0 /\ l.tail = 0
           ELSE /\ chain[Len(chain)] = l.tail
                /\ NodeAt(l, chain[1]).previous = 0
                /\ \A k \in 2..Len(chain) : NodeAt(l, chain[k]).previous = chain[k - 1]

\* the positions in the forward chain of the nodes a handle stands for: those
\* with the handle's value and the handle's links
PositionsOf(l, h) ==
    LET chain == Forward(l)
    IN  {k \in 1..Len(chain) :
            /\ ValueAt(l, NodeAt(l, chain[k]).valueIndex) = h.Value
            /\ NodeAt(l, chain[k]).next = h.next
            /\ NodeAt(l, chain[k]).previous = h.previous}

\* seq without its k-th element
Delete(seq, k) == SubSeq(seq, 1, k - 1) \o SubSeq(seq, k + 1, Len(seq))

\* seq with value put after its k-th element (k = 0: in front)
InsertAfter(seq, k, value) == SubSeq(seq, 1, k) \o <<value>> \o SubSeq(seq, k + 1, Len(seq))

\* index is an element of some order's free list
IsFreeBlock(a, index) ==
    \E o \in 1..Len(a.freeLists) : \E i \in 1..Len(a.freeLists[o]) : a.freeLists[o][i] = index

\* the unit index lies in a block of some order's free list
IsFreeUnit(a, index) ==
    \E o \in 1..Len(a.freeLists) : \E i \in 1..Len(a.freeLists[o]) :
        a.freeLists[o][i] <= index /\ index < a.freeLists[o][i] + Pow2(o - 1)

\* the caller holds a handle, taken since the list last changed, to a node
\* of a well-formed list
HoldsFreshHandle ==
    /\ ~misuse /\ fault = "none" /\ fresh /\ ~handle.nil
    /\ WellFormed(list)
    /\ PositionsOf(list, handle) # {}

\* C17: Remove(handle) on a handle just obtained for a node of the list
\* removes exactly that node, makes Size() one less, releases the node's own
\* slot to the allocator and leaves the slot of every remaining node
\* allocated (absent from every free list).
C17_RemoveReleasesOwnSlot ==
    [][(HoldsFreshHandle /\ calls' = calls + 1 /\ result'.op = "Remove")
       => \E k \in PositionsOf(list, handle) :
              LET chain == Forward(list)
              IN  /\ fault' = "none"
                  /\ Forward(list') = Delete(chain, k)
                  /\ Size(list') = Size(list) - 1
                  /\ IsFreeUnit(list'.memory, chain[k] - 1)
                  /\ \A j \in 1..Len(chain) :
                         j # k => ~IsFreeBlock(list'.memory, chain[j] - 1)]_vars

RECURSIVE WalkBack(_, _, _)
\* the indices visited by following previous from index i, cut after steps nodes
WalkBack(l, i, steps) ==
    IF i = 0 \/ steps = 0 THEN <<>>
    ELSE <<i>> \o WalkBack(l, NodeAt(l, i).previous, steps - 1)

\* the nodes reachable from tail by previous
Backward(l) == WalkBack(l, l.tail, Len(l.nodes) + 1)

Reverse(seq) == [i \in 1..Len(seq) |-> seq[Len(seq) + 1 - i]]

\* the values read by walking previous from Tail()
BackwardValues(l) ==
    LET chain == Backward(l)
    IN  [i \in 1..Len(chain) |-> ValueAt(l, NodeAt(l, chain[i]).valueIndex)]

\* C18: InsertNext(value) (InsertPrevious(value)) on a handle just obtained
\* from Head(), Tail(), Next() or Previous() puts the value immediately after
\* (before) the handle's node in the forward and in the backward traversal,
\* keeps the other elements in their order and makes Size() one more.
C18_InsertIsAdjacent ==
    [][(/\ HoldsFreshHandle /\ calls' = calls + 1
        /\ result'.op \in {"InsertNext", "InsertPrevious"})
       => \E k \in PositionsOf(list, handle) :
              LET at == IF result'.op = "InsertNext" THEN k ELSE k - 1
              IN  /\ fault' = "none"
                  /\ \E value \in NewValues :
                         ForwardValues(list') = InsertAfter(ForwardValues(list), at, value)
                  /\ BackwardValues(list') = Reverse(ForwardValues(list'))
                  /\ Size(list') = Size(list) + 1]_vars

\* the positions in the forward chain of the node a handle from Head() or
\* Tail() was taken for: the node at the handle's value index, still holding
\* the handle's value
NodeOf(l, h) ==
    LET chain == Forward(l)
    IN  {k \in 1..Len(chain) :
            /\ h.valueIndex # 0 /\ chain[k] = h.valueIndex
            /\ ValueAt(l, NodeAt(l, chain[k]).valueIndex) = h.Value}

\* the caller holds a handle from Head() or Tail() whose node is still in the
\* well-formed list but has other neighbours than the handle recorded
HoldsStaleHandle ==
    /\ ~misuse /\ fault = "none" /\ ~handle.nil
    /\ WellFormed(list)
    /\ \E k \in NodeOf(list, handle) :
           \/ NodeAt(list, handle.valueIndex).next # handle.next
           \/ NodeAt(list, handle.valueIndex).previous # handle.previous

\* C19: InsertNext, InsertPrevious and Remove on a handle whose node got
\* other neighbours since the handle was taken act on the node's current
\* neighbours: the list stays well formed, with the node's place in the
\* traversal found again.
C19_StaleHandleResolved ==
    [][(/\ HoldsStaleHandle /\ calls' = calls + 1
        /\ result'.op \in {"InsertNext", "InsertPrevious", "Remove"})
       => \E k \in NodeOf(list, handle) :
              /\ fault' = "none"
              /\ WellFormed(list')
              /\ BackwardValues(list') = Reverse(ForwardValues(list'))
              /\ \E value \in NewValues :
                     ForwardValues(list') =
                         CASE result'.op = "InsertNext" ->
                                  InsertAfter(ForwardValues(list), k, value)
                           [] result'.op = "InsertPrevious" ->
                                  InsertAfter(ForwardValues(list), k - 1, value)
                           [] OTHER -> Delete(ForwardValues(list), k)]_vars

\* the caller holds no valid handle: nil, or a handle from Head() or Tail()
\* whose node has left the list
HoldsInvalidHandle ==
    /\ fault = "none" /\ WellFormed(list)
    /\ \/ handle.nil
       \/ /\ handle.valueIndex # 0
          /\ \A k \in 1..Len(ForwardValues(list)) : ForwardValues(list)[k] # handle.Value

\* C20: Remove, InsertNext and InsertPrevious with an invalid handle leave
\* head, tail, Size(), the chain and the allocator of the list unchanged and
\* do not fault.
C20_InvalidHandleIgnored ==
    [][(/\ HoldsInvalidHandle /\ calls' = calls + 1
        /\ result'.op \in {"InsertNext", "InsertPrevious", "Remove"})
       => (fault' = "none" /\ list' = list)]_vars

\* C21: slot 0 is the null sentinel: no node of the chain has index 0 and no
\* call writes the next, previous, value index or value of slot 0.  Stated
\* for the runs in which every handle was used before the list changed again.
C21_SlotZeroIsSentinel ==
    (~misuse /\ fault = "none")
        => /\ NodeAt(list, 0) = zeroNode
           /\ ValueAt(list, 0) = zeroValue
           /\ \A k \in 1..Len(Forward(list)) : Forward(list)[k] >= 1

\* C22: head = 0 iff Size() = 0 iff tail = 0, and walking previous from tail
\* visits the nodes of the walk by next from head in reverse order, Size()
\* of them.  Stated for the runs in which every handle was used before the
\* list changed again.
C22_BackwardMirrorsForward ==
    (~misuse /\ fault = "none")
        => /\ (list.head = 0) <=> (Size(list) = 0)
           /\ (list.tail = 0) <=> (Size(list) = 0)
           /\ Len(Backward(list)) = Size(list)
           /\ Backward(list) = Reverse(Forward(list))

\* C23: the backing arrays cover the allocator's arena: nodes and values
\* have the same length, at least memory.Capacity() + 1, from construction on.
C23_ArraysCoverArena ==
    /\ Len(list.nodes) = Len(list.values)
    /\ Len(list.nodes) >= Capacity(list.memory) + 1

----------------------------------------------------------------------------
(* The list used as a deque: Append, Prepend, PopHead and PopTail only, on  *)
(* a list that k earlier Append calls have filled with the values 1..k,     *)
(* beside the abstract sequence the calls describe.                         *)

RECURSIVE Filled(_)
\* NewLinkedList() followed by Append(1), ..., Append(k)
Filled(k) ==
    IF k = 0 THEN NewLinkedList(NoOption)
    ELSE Bind(Filled(k - 1), LAMBDA l : ListAppend(l, k).list)

\* numbers of elements the list holds when the deque calls begin
FillCounts == 0..defaultInitialSize

\* the value a deque call stores: none stored before
DequeValues == {defaultInitialSize + calls + 1}

DequeInit ==
    /\ \E k \in FillCounts :
           /\ list = Filled(k)
           /\ scenario = [deque |-> [i \in 1..k |-> i], popped |-> 0]
    /\ handle = Nil
    /\ fresh = FALSE
    /\ fault = "none"
    /\ calls = 0
    /\ allocator = NewBuddyAllocator(NoOption, NoOption)
    /\ live = {}
    /\ result = [op |-> "New", ret |-> Nil]
    /\ misuse = FALSE

\* what every deque call has in common; deque is the abstract sequence after
\* the call and popped the value it removed from it, 0 if none
DequeCall(op, ret, deque, popped) ==
    /\ calls' = calls + 1
    /\ result' = [op |-> op, ret |-> ret]
    /\ scenario' = [deque |-> deque, popped |-> popped]
    /\ fresh' = FALSE
    /\ UNCHANGED <<allocator, live, misuse, handle>>

CanCallDeque == fault = "none" /\ calls < MaxDequeCalls

DequeAppend ==
    /\ CanCallDeque
    /\ \E value \in DequeValues :
           /\ \E r \in {ListAppend(list, value)} : list' = r.list /\ fault' = r.fault
           /\ DequeCall("Append", Nil, Append(scenario.deque, value), 0)

DequePrepend ==
    /\ CanCallDeque
    /\ \E value \in DequeValues :
           /\ \E r \in {Prepend(list, value)} : list' = r.list /\ fault' = r.fault
           /\ DequeCall("Prepend", Nil, <<value>> \o scenario.deque, 0)

DequePopHead ==
    /\ CanCallDeque
    /\ \E r \in {PopHead(list)} :
           /\ list' = r.list
           /\ IF scenario.deque = <<>>
              THEN DequeCall("PopHead", r.ret, <<>>, 0)
              ELSE DequeCall("PopHead", r.ret, Tail(scenario.deque), Head(scenario.deque))
    /\ UNCHANGED fault

DequePopTail ==
    /\ CanCallDeque
    /\ \E r \in {PopTail(list)} :
           /\ list' = r.list
           /\ IF scenario.deque = <<>>
              THEN DequeCall("PopTail", r.ret, <<>>, 0)
              ELSE DequeCall("PopTail", r.ret,
                             SubSeq(scenario.deque, 1, Len(scenario.deque) - 1),
                             scenario.deque[Len(scenario.deque)])
    /\ UNCHANGED fault

DequeNext == DequeAppend \/ DequePrepend \/ DequePopHead \/ DequePopTail

SpecDeque == DequeInit /\ [][DequeNext]_vars

\* C16: the values read by walking next from Head() are the abstract
\* sequence, PopHead and PopTail return the value removed from its front and
\* back (nil on an empty list), and no call faults.
C16_DequeRefinement ==
    /\ fault = "none"
    /\ ForwardValues(list) = scenario.deque
    /\ result.op \in {"PopHead", "PopTail"}
           => IF scenario.popped = 0 THEN result.ret = Nil
              ELSE ~result.ret.nil /\ result.ret.Value = scenario.popped

----------------------------------------------------------------------------
(* Properties of the allocator under Spec *)

RECURSIVE FreeUnits(_, _)
\* sum over the orders 0..order of len(freeLists[order]) * 2^order
FreeUnits(a, order) ==
    IF order < 0 THEN 0
    ELSE Len(FreeList(a, order)) * Pow2(order) + FreeUnits(a, order - 1)

BuddySum(a) == FreeUnits(a, Len(a.freeLists) - 1) + Used(a)

\* C1: buddy invariant: the free units over all orders plus used equal the
\* capacity.  Stated for the runs in which every Free was passed a live
\* allocation; the claim covers every run, so a violation here refutes it.
\* The live sizes are taken to be powers of two, so that the violation does
\* not rest on the block orderOf picks for other sizes (C10).
C1_BuddyInvariant ==
    (~misuse /\ \A l \in live : l.size = Pow2(orderOf(l.size)))
        => BuddySum(allocator) = Capacity(allocator)

\* C3: Free of a live allocation returns ok=true, and Free returns ok=false
\* only for an index out of range or an index found in a free list.
C3_FreeLiveSucceeds ==
    (result.op = "Free" /\ result.clean /\ result.wasLive /\ ~result.ok)
        => (~result.inRange \/ result.inFree)

\* C5: Free(index, size) of a live allocation, called twice in a row, returns
\* ok=false the second time and the second call leaves used unchanged.
\* Stated for a first call that returned ok=true.
C5_DoubleFreeDetected ==
    [][(/\ result.op = "Free" /\ result.wasLive /\ result.clean /\ result.ok
        /\ calls' = calls + 1
        /\ result'.op = "Free"
        /\ result'.index = result.index /\ result'.size = result.size)
       => (~result'.ok /\ Used(allocator') = Used(allocator))]_vars

\* C6: a Free that returns ok=false leaves used, capacity, maxOrder and every
\* free list as they were.  Stated for a Free that was passed a live
\* allocation by a caller that never misused Free.
C6_RejectedFreeChangesNothing ==
    [][(calls' = calls + 1 /\ result'.op = "Free" /\ ~result'.ok
        /\ result'.clean /\ result'.wasLive)
       => allocator' = allocator]_vars

\* C7: Free with index >= Capacity() returns ok=false, whatever the size.
C7_FreeOutOfRangeRejected ==
    (result.op = "Free" /\ ~result.inRange) => ~result.ok

C7_Witness ==
    /\ result.op = "Free" /\ ~result.inRange
    /\ result.index = Capacity(allocator)
    /\ live # {}

\* C8: Free with an index strictly inside a live block returns ok=false.
C8_MisalignedFreeRejected ==
    (result.op = "Free" /\ result.clean /\ result.inside) => ~result.ok

\* C9: Allocate returns ok=false exactly when maxOrder is fixed and
\* orderOf(size) > maxOrder; the failing call returns grew=false and leaves
\* the allocator unchanged.
C9_AllocateFailsOnlyAboveFixedMaxOrder ==
    [][(calls' = calls + 1 /\ result'.op = "Allocate")
       => LET tooBig == /\ allocator.state.MaxOrderSet
                        /\ orderOf(result'.size) > allocator.state.MaxOrder
          IN  /\ result'.ok <=> ~tooBig
              /\ ~result'.ok => (~result'.grew /\ allocator' = allocator)]_vars

C9_Witness ==
    /\ result.op = "Allocate" /\ ~result.ok
    /\ live # {}

\* C12: ClearAll sets used to 0, leaves every free list below maxOrder
\* empty, and makes the maxOrder free list tile [0, capacity): its length
\* times 2^maxOrder is the capacity; capacity and maxOrder are unchanged.
\* Stated for callers that never misused Free.
C12_ClearAllTilesCapacity ==
    [][(calls' = calls + 1 /\ result'.op = "ClearAll" /\ result'.clean)
       => /\ Used(allocator') = 0
          /\ \A order \in 0..(allocator'.state.MaxOrder - 1) : FreeList(allocator', order) = <<>>
          /\ Len(FreeList(allocator', allocator'.state.MaxOrder))
                 * Pow2(allocator'.state.MaxOrder) = Capacity(allocator')
          /\ allocator'.state = allocator.state]_vars

\* C10: orderOf(size) is the smallest order whose block holds size units:
\* 2^orderOf(size) >= size, and 2^(orderOf(size)-1) < size when the order is
\* above 0.  Checked on every size Allocate was called with.
C10_OrderOfCoversSize ==
    (result.op = "Allocate" /\ result.size >= 1)
        => /\ Pow2(orderOf(result.size)) >= result.size
           /\ orderOf(result.size) > 0 => Pow2(orderOf(result.size) - 1) < result.size

StrictlyAscending(slice) == \A i \in 1..(Len(slice) - 1) : slice[i] < slice[i + 1]

\* C24: every free list is strictly ascending and holds only offsets of
\* blocks that are not allocated.  Stated for the runs in which every Free
\* was passed a live allocation of a power-of-two size; the claim covers
\* every run, so a violation here refutes it.
C24_FreeListsSortedAndFree ==
    (~misuse /\ \A l \in live : l.size = Pow2(orderOf(l.size)))
        => \A order \in 0..(Len(allocator.freeLists) - 1) :
               /\ StrictlyAscending(FreeList(allocator, order))
               /\ \A k \in 1..Len(FreeList(allocator, order)) :
                      \A l \in live : l.index # FreeList(allocator, order)[k]

\* C25: no offset is in more than one free list, and every offset in
\* freeLists[order] is a multiple of 2^order whose block lies inside
\* [0, capacity).  Stated for the runs in which every Free was passed a live
\* allocation; the claim covers every run, so a violation here refutes it.
C25_FreeBlocksAlignedAndDisjoint ==
    ~misuse
        => \A order \in 0..(Len(allocator.freeLists) - 1) :
               \A k \in 1..Len(FreeList(allocator, order)) :
                   LET offset == FreeList(allocator, order)[k]
                   IN  /\ offset % Pow2(order) = 0
                       /\ 0 <= offset
                       /\ offset + Pow2(order) <= Capacity(allocator)
                       /\ \A other \in 0..(Len(allocator.freeLists) - 1) :
                              other # order
                                  => \A j \in 1..Len(FreeList(allocator, other)) :
                                         FreeList(allocator, other)[j] # offset

\* C26: the capacity is a multiple of 2^maxOrder in every reachable state,
\* for fixed and for elastic allocators.
C26_CapacityMultipleOfTopBlock ==
    Capacity(allocator) % Pow2(allocator.state.MaxOrder) = 0

\* the buddy of the block of the given order at the offset
BuddyOf(index, order) == XorBit(index, order)

OnFreeList(a, order, index) ==
    \E k \in 1..Len(FreeList(a, order)) : FreeList(a, order)[k] = index

\* C27: coalescing is complete: no free list below maxOrder holds both a
\* block and its buddy.  Stated for the runs in which every Free was passed
\* a live allocation; the claim covers every run, so a violation here
\* refutes it.
C27_CoalescingComplete ==
    ~misuse
        => \A order \in 0..(allocator.state.MaxOrder - 1) :
               \A k \in 1..Len(FreeList(allocator, order)) :
                   ~OnFreeList(allocator, order, BuddyOf(FreeList(allocator, order)[k], order))

----------------------------------------------------------------------------
(* The order in which Allocate hands out freed blocks *)

\* fixed allocators of one and of two top-order blocks
StackOptions == {<<minimumCapacity, minimumMaxOrder>>,
                 <<2 * minimumCapacity, minimumMaxOrder>>}

StackSizes == {1, 2}

\* order: the order of the free list the last Frees put their blocks into;
\* freed: the offsets those consecutive Frees inserted there without a
\* merge, oldest first; served: the index the Allocate that followed two or
\* more of them took from that list, -1 before it
NoStack == [order |-> -1, freed |-> <<>>, served |-> -1]

StackInit ==
    /\ \E o \in StackOptions : allocator = NewBuddyAllocator(o[1], o[2])
    /\ scenario = NoStack
    /\ live = {}
    /\ result = NoCall
    /\ misuse = FALSE
    /\ calls = 0
    /\ ListIdle

StackAllocate ==
    /\ calls < MaxStackCalls
    /\ \E size \in StackSizes :
           LET r == Allocate(allocator, size)
               l == [index |-> r.index, size |-> size]
               fromList == /\ Len(scenario.freed) >= 2
                           /\ scenario.served = -1
                           /\ orderOf(size) = scenario.order
                           /\ r.ok
           IN  /\ allocator' = r.alloc
               /\ live' = IF r.ok THEN live \cup {l} ELSE live
               /\ result' = [NoCall EXCEPT !.op = "Allocate", !.index = r.index,
                                           !.size = size, !.grew = r.grew, !.ok = r.ok,
                                           !.retries = r.retries]
               /\ scenario' = IF fromList THEN [scenario EXCEPT !.served = r.index]
                              ELSE NoStack
    /\ calls' = calls + 1
    /\ UNCHANGED <<misuse, listVars>>

StackFree ==
    /\ calls < MaxStackCalls
    /\ \E l \in live :
           LET r == Free(allocator, l.index, l.size)
               order == orderOf(l.size)
               noMerge == r.ok /\ OnFreeList(r.alloc, order, l.index)
               base == IF scenario.served = -1 THEN scenario ELSE NoStack
           IN  /\ allocator' = r.alloc
               /\ live' = IF r.ok THEN live \ {l} ELSE live
               /\ result' = [op |-> "Free", index |-> l.index, size |-> l.size,
                             grew |-> FALSE, ok |-> r.ok, wasLive |-> TRUE,
                             inside |-> InsideLive(l.index),
                             inRange |-> l.index < Capacity(allocator),
                             inFree |-> InSomeFreeList(allocator, l.index),
                             clean |-> ~misuse, retries |-> 0]
               /\ scenario' = IF ~noMerge THEN NoStack
                              ELSE IF base.order = order
                                   THEN [base EXCEPT !.freed = Append(@, l.index)]
                                   ELSE [NoStack EXCEPT !.order = order,
                                                        !.freed = <<l.index>>]
    /\ calls' = calls + 1
    /\ UNCHANGED <<misuse, listVars>>

StackNext == StackAllocate \/ StackFree

SpecStack == StackInit /\ [][StackNext]_vars

\* C28: Allocate treats the free list as a stack: after Frees put two or more
\* blocks into the same free list with no merge, the next Allocate served
\* from that list returns the block freed last.
C28_AllocatePopsLastFreed ==
    scenario.served # -1 => scenario.served = scenario.freed[Len(scenario.freed)]

\* C29: every Allocate call returns, and when its scan of the orders from the
\* required one to maxOrder finds no free block it grows once and calls
\* itself once: that call finds a block, so the call succeeds and reports
\* growth after at most one grow-and-retry.
C29_AllocateRetriesOnce ==
    result.op = "Allocate"
        => /\ result.retries <= 1
           /\ result.retries = 1 => (result.ok /\ result.grew)

\* an Allocate that raised the elastic maximum order to the required one,
\* found no block of that order, grew once more and retried
C29_Witness ==
    /\ result.op = "Allocate" /\ result.retries = 1 /\ result.ok
    /\ orderOf(result.size) = allocator.state.MaxOrder - 1
    /\ ~allocator.state.MaxOrderSet

\* the ranges [i1, i1 + s1) and [i2, i2 + s2) share no unit
Disjoint(i1, s1, i2, s2) == i1 + s1 <= i2 \/ i2 + s2 <= i1

\* C30: live allocations never overlap: after successful Allocate calls and
\* Free calls on live allocations, the ranges [index, index + size) of the
\* live allocations are pairwise disjoint, lie inside [0, capacity) and meet
\* no block of a free list, for every requested size.
C30_LiveAllocationsDisjoint ==
    ~misuse
        => /\ \A l1, l2 \in live :
                  l1 # l2 => Disjoint(l1.index, l1.size, l2.index, l2.size)
           /\ \A l \in live : 0 <= l.index /\ l.index + l.size <= Capacity(allocator)
           /\ \A l \in live :
                  \A order \in 0..(Len(allocator.freeLists) - 1) :
                      \A k \in 1..Len(FreeList(allocator, order)) :
                          Disjoint(l.index, l.size,
                                   FreeList(allocator, order)[k], Pow2(order))

====
